---- MODULE Spec2Model ----
(***************************************************************************)
(* webotron: BucketManager.sync and the operations it is made of           *)
(* (src/webotron/bucket.py).  The model holds one BucketManager, the local *)
(* file system below one sync root, and two S3 containers.  Byte strings   *)
(* and Python strings are sequences of tokens; a path is the sequence of   *)
(* its segments.  The ContentType upload_file derives from the key plays   *)
(* no part in what is uploaded or skipped and is left out.                 *)
(***************************************************************************)
EXTENDS Integers, Sequences, FiniteSets, TLC

VARIABLES fs, store, manifest, listed, pc, err, cur, pages, stack, handed,
          uploaded, call, syncs, changed, touched, ctx

vars == <<fs, store, manifest, listed, pc, err, cur, pages, stack, handed,
          uploaded, call, syncs, changed, touched, ctx>>

(* ------------------------------ bounds -------------------------------- *)

\* Longest file content, in bytes.
MaxLen == 5

\* Number of sync invocations made on the one BucketManager.
MaxSyncs == 2

\* Keys returned by one page of list_objects_v2 (1000 at the real store).
PageSize == 1

\* BucketManager.CHUNK_SIZE, 8388608 in the source, scaled down so that files
\* below, at and above the threshold fit in MaxLen bytes.
CHUNK_SIZE == 2

Bytes == {"x", "y"}

AllData == UNION {[1..n -> Bytes] : n \in 0..MaxLen}

Min(a, b) == IF a <= b THEN a ELSE b

(* --------------------------- fingerprints ----------------------------- *)

\* Python's None, as gen_etag returns it for an empty file.  No string equals it.
None == <<"None">>

\* hash_data: an md5 object fed with data.  MD5 is taken collision free: the
\* hash object is represented by what it was fed.
hash_data(data) == [fed |-> data]

\* h.digest(): the 16 raw bytes, an opaque block delimited in the byte stream.
digest(h) == <<"md5(">> \o h.fed \o <<")">>

\* h.hexdigest(): the same 16 bytes rendered in hexadecimal.
hexdigest(h) == <<"hex[">> \o digest(h) \o <<"]">>

\* The read loop of gen_etag: read(CHUNK_SIZE) until it returns no data.
RECURSIVE ReadChunks(_, _)
ReadChunks(data, pos) ==
    LET chunk == SubSeq(data, pos + 1, Min(pos + CHUNK_SIZE, Len(data)))
    IN  IF Len(chunk) = 0
        THEN <<>>
        ELSE <<hash_data(chunk)>> \o ReadChunks(data, pos + Len(chunk))

\* reduce(lambda x, y: x + y, (h.digest() for h in hashes))
RECURSIVE ConcatDigests(_)
ConcatDigests(hashes) ==
    IF Len(hashes) = 1
    THEN digest(hashes[1])
    ELSE digest(hashes[1]) \o ConcatDigests(Tail(hashes))

\* '"{}"'.format(hex)
FormatSingle(hex) == <<"\"">> \o hex \o <<"\"">>

\* '"{}-{}"'.format(hex, count)
FormatComposite(hex, count) == <<"\"">> \o hex \o <<"-", ToString(count)>> \o <<"\"">>

\* A fingerprint that ignores the one-chunk case and always uses the composite form.
gen_etag_always_composite(data) ==
    LET hashes == ReadChunks(data, 0)
    IN  IF Len(hashes) = 0
        THEN None
        ELSE FormatComposite(hexdigest(hash_data(ConcatDigests(hashes))), Len(hashes))

gen_etag(data) ==
    LET hashes == ReadChunks(data, 0)
    IN  IF Len(hashes) = 0
        THEN None
        ELSE IF Len(hashes) = 1
        THEN FormatSingle(hexdigest(hashes[1]))
        ELSE FormatComposite(hexdigest(hash_data(ConcatDigests(hashes))), Len(hashes))

(* ------------------------- the remote store --------------------------- *)

\* The entity tag the store records for an object put in one request.
SingleShotTag(data) == FormatSingle(hexdigest(hash_data(data)))

\* The parts a multipart upload of part size partSize sends.
RECURSIVE Parts(_, _, _)
Parts(data, pos, partSize) ==
    IF pos >= Len(data)
    THEN <<>>
    ELSE <<hash_data(SubSeq(data, pos + 1, Min(pos + partSize, Len(data))))>>
         \o Parts(data, pos + partSize, partSize)

\* The entity tag the store records for a completed multipart upload: the md5 of
\* the parts' digests, then a dash and the number of parts, one part included.
MultipartTag(data, partSize) ==
    LET parts == Parts(data, 0, partSize)
    IN  FormatComposite(hexdigest(hash_data(ConcatDigests(parts))), Len(parts))

\* transfer_config: multipart_threshold = multipart_chunksize = CHUNK_SIZE.
multipart_threshold == CHUNK_SIZE
multipart_chunksize == CHUNK_SIZE

\* The transfer manager goes multipart once the size reaches the threshold.
Strategy(size) == IF size >= multipart_threshold THEN "multipart" ELSE "single"

\* The tag the store holds after bucket.upload_file(..., Config=transfer_config).
UploadedTag(data) ==
    IF Strategy(Len(data)) = "multipart"
    THEN MultipartTag(data, multipart_chunksize)
    ELSE SingleShotTag(data)

(* ------------------------ the local file system ----------------------- *)

\* The resolved sync root, Path(pathname).expanduser().resolve().
Root == <<"site">>

\* The paths below the root that may exist, relative to it.
RelPaths == {<<"a">>, <<"d">>, <<"d", "a">>}

AbsPaths == {Root \o r : r \in RelPaths}

Parent(p) == SubSeq(p, 1, Len(p) - 1)

\* str(a_path.relative_to(root)): the segments after the root's.
relative_to(p, root) == SubSeq(p, Len(root) + 1, Len(p))

NoNode == [kind |-> "none", data |-> <<>>, readable |-> TRUE]
Special == [kind |-> "special", data |-> <<>>, readable |-> TRUE]
Dir(r) == [kind |-> "dir", data |-> <<>>, readable |-> r]
File(d) == [kind |-> "file", data |-> d, readable |-> TRUE]
UnreadableFile == [kind |-> "file", data |-> <<"x">>, readable |-> FALSE]

\* An entry exists only inside a directory.
WellFormed(f) ==
    \A p \in AbsPaths :
        f[p].kind # "none" => (Parent(p) = Root \/ f[Parent(p)].kind = "dir")

is_dir(p) == fs[p].kind = "dir"
is_file(p) == fs[p].kind = "file"

\* target.iterdir(): the entries of a directory, in no particular order.
iterdir(target) == {p \in AbsPaths : Parent(p) = target /\ fs[p].kind # "none"}

RegularFiles == {p \in AbsPaths : fs[p].kind = "file"}

(* ----------------------------- containers ----------------------------- *)

Containers == {"A", "B"}

\* Object keys, in the order the store lists them.
KeyOrder == << <<"a">>, <<"d">>, <<"d", "a">> >>
Keys == {KeyOrder[i] : i \in 1..Len(KeyOrder)}

NoObject == [present |-> FALSE, data |-> <<>>, tag |-> <<>>]
Object(d, t) == [present |-> TRUE, data |-> d, tag |-> t]

EmptyContainer == [k \in Keys |-> NoObject]

\* The listing of a container: one {Key, ETag} record per object, in key order.
Listing(bucket) ==
    LET present(k) == store[bucket][k].present
        keys == SelectSeq(KeyOrder, present)
    IN  [i \in 1..Len(keys) |-> [Key |-> keys[i], ETag |-> store[bucket][keys[i]].tag]]

\* paginator.paginate(Bucket=...): the listing cut into pages of PageSize
\* objects; an empty container answers with one page without Contents.
RECURSIVE Paginate(_)
Paginate(listing) ==
    IF Len(listing) <= PageSize
    THEN <<listing>>
    ELSE <<SubSeq(listing, 1, PageSize)>>
         \o Paginate(SubSeq(listing, PageSize + 1, Len(listing)))

(* ------------------------------ manifest ------------------------------ *)

\* self.manifest = {} in __init__.
EmptyManifest == [k \in {} |-> <<>>]

\* The inner loop of load_manifest on one page:
\* self.manifest[obj['Key']] = obj['ETag'] for every object of the page.
RECURSIVE StorePage(_, _)
StorePage(m, page) ==
    IF Len(page) = 0
    THEN m
    ELSE LET obj == Head(page)
             m1 == [k \in DOMAIN m \cup {obj.Key} |->
                        IF k = obj.Key THEN obj.ETag ELSE m[k]]
         IN  StorePage(m1, Tail(page))

\* self.manifest.get(key, default)
ManifestGet(m, key, default) == IF key \in DOMAIN m THEN m[key] ELSE default

\* A comparison whose default is None instead of the empty string.
skips_with_default_None(m, key, etag) == ManifestGet(m, key, None) = etag

\* upload_file's test: self.manifest.get(key, '') == etag
skips(m, key, etag) == ManifestGet(m, key, <<>>) = etag

(* ------------------------------- state -------------------------------- *)
\* fs        the local tree: path -> node
\* store     container -> key -> object
\* manifest  self.manifest of the one BucketManager
\* listed    the entries the store has listed to the current invocation
\* pc        "idle", "listing" (in load_manifest), "walking" (in
\*           handle_directory), "done" (sync returned), "failed" (sync raised)
\* err       what raised: "list", "walk" (iterdir), "hash" (open/read in
\*           gen_etag), "upload" (bucket.upload_file), or "none"
\* cur       the container of the current or last invocation
\* pages     the listing pages load_manifest has still to fetch
\* stack     the active handle_directory calls: directory and entries left
\* handed    the (path, key) pairs passed to upload_file in this invocation
\* uploaded  the keys bucket.upload_file was called for in this invocation
\* call      the last upload_file call: its inputs and what it decided
\* syncs     invocations started so far
\* changed   files whose content changed since the last invocation started
\* touched   containers somebody else changed since the last invocation started
\* ctx       what held when the current invocation started

NoCall == [made |-> FALSE, key |-> <<>>, data |-> <<>>, etag |-> <<>>,
           had |-> FALSE, tag |-> <<>>, skipped |-> FALSE,
           strategy |-> "none", stored |-> <<>>]

Stopped == pc \in {"idle", "done", "failed"}

\* Return from every handle_directory call whose loop has no entry left.
RECURSIVE Unwind(_)
Unwind(st) ==
    IF Len(st) = 0 THEN st
    ELSE IF st[Len(st)].todo = {} THEN Unwind(SubSeq(st, 1, Len(st) - 1))
    ELSE st

\* The stack once the loop of the innermost call has taken entry e.
Taken(e) ==
    [stack EXCEPT ![Len(stack)].todo = @ \ {e}]

Raise(kind) ==
    /\ pc' = "failed"
    /\ err' = kind
    /\ stack' = <<>>

Continue(st) ==
    /\ stack' = Unwind(st)
    /\ pc' = IF Len(Unwind(st)) = 0 THEN "done" ELSE "walking"
    /\ err' = "none"

(* ------------------------------ actions ------------------------------- *)

\* sync(pathname, bucket_name) is called: bucket = self.s3.Bucket(bucket_name)
\* and load_manifest starts paginating.  self.manifest is left as it is.
sync(bucket) ==
    /\ Stopped
    /\ syncs < MaxSyncs
    /\ syncs' = syncs + 1
    /\ cur' = bucket
    /\ pages' = Paginate(Listing(bucket))
    /\ pc' = "listing"
    /\ err' = "none"
    /\ stack' = <<>>
    /\ handed' = <<>>
    /\ uploaded' = {}
    /\ call' = NoCall
    /\ ctx' = [prev |-> IF pc = "done" THEN cur ELSE "none",
               changed |-> changed, touched |-> touched]
    /\ changed' = {}
    /\ touched' = {}
    /\ listed' = EmptyManifest
    /\ UNCHANGED <<fs, store, manifest>>

\* A load_manifest that goes on to the walk when a page cannot be fetched.
load_manifest_swallowing_errors ==
    /\ pc = "listing"
    /\ \E ok \in BOOLEAN :
        /\ manifest' = IF ok THEN StorePage(manifest, Head(pages)) ELSE manifest
        /\ listed' = IF ok THEN StorePage(listed, Head(pages)) ELSE listed
        /\ pages' = IF ok THEN Tail(pages) ELSE pages
        /\ IF ok /\ Len(pages) > 1
           THEN UNCHANGED <<pc, err, stack>>
           ELSE Continue(<<[dir |-> Root, todo |-> iterdir(Root)]>>)
    /\ UNCHANGED <<fs, store, cur, handed, uploaded, call, syncs, changed, touched, ctx>>

\* One page of load_manifest's paginator: the request fails and sync raises, or
\* the page's objects go into self.manifest.  After the last page sync resolves
\* the root and calls handle_directory(root).
load_manifest ==
    /\ pc = "listing"
    /\ \E ok \in BOOLEAN :
        IF ~ok
        THEN /\ Raise("list")
             /\ UNCHANGED <<manifest, listed, pages>>
        ELSE /\ manifest' = StorePage(manifest, Head(pages))
             /\ listed' = StorePage(listed, Head(pages))
             /\ pages' = Tail(pages)
             /\ IF Len(pages) > 1
                THEN UNCHANGED <<pc, err, stack>>
                ELSE Continue(<<[dir |-> Root, todo |-> iterdir(Root)]>>)
    /\ UNCHANGED <<fs, store, cur, handed, uploaded, call, syncs, changed, touched, ctx>>

\* upload_file(bucket, path, key) on a file that can be read: gen_etag, the
\* comparison with the manifest, and bucket.upload_file unless they match.
upload_file(path, key, st) ==
    LET data == fs[path].data
        etag == gen_etag(data)
        made == [made |-> TRUE, key |-> key, data |-> data, etag |-> etag,
                 had |-> key \in DOMAIN manifest,
                 tag |-> ManifestGet(manifest, key, <<>>),
                 skipped |-> FALSE, strategy |-> "none", stored |-> <<>>]
    IN  IF skips(manifest, key, etag)
        THEN /\ call' = [made EXCEPT !.skipped = TRUE]
             /\ Continue(st)
             /\ UNCHANGED <<store, uploaded>>
        ELSE /\ uploaded' = uploaded \cup {key}
             /\ \E ok \in BOOLEAN :
                 IF ok
                 THEN /\ store' = [store EXCEPT ![cur][key] =
                                       Object(data, UploadedTag(data))]
                      /\ call' = [made EXCEPT !.strategy = Strategy(Len(data)),
                                              !.stored = UploadedTag(data)]
                      /\ Continue(st)
                 ELSE /\ call' = made
                      /\ Raise("upload")
                      /\ UNCHANGED store

\* One turn of the loop of the innermost handle_directory call, on entry a_path.
handle_directory(a_path) ==
    /\ pc = "walking"
    /\ a_path \in stack[Len(stack)].todo
    /\ IF is_dir(a_path)
       THEN \* handle_directory(a_path): its iterdir() raises on a directory
            \* that cannot be listed.
            /\ IF fs[a_path].readable
               THEN Continue(Append(Taken(a_path),
                                    [dir |-> a_path, todo |-> iterdir(a_path)]))
               ELSE Raise("walk")
            /\ UNCHANGED <<store, handed, uploaded, call>>
       ELSE IF is_file(a_path)
       THEN /\ handed' = Append(handed, [path |-> a_path,
                                         key |-> relative_to(a_path, Root)])
            /\ IF fs[a_path].readable
               THEN upload_file(a_path, relative_to(a_path, Root), Taken(a_path))
               ELSE \* open(path, 'rb') raises inside gen_etag.
                    /\ Raise("hash")
                    /\ call' = NoCall
                    /\ UNCHANGED <<store, uploaded>>
       ELSE /\ Continue(Taken(a_path))
            /\ UNCHANGED <<store, handed, uploaded, call>>
    /\ UNCHANGED <<fs, manifest, listed, cur, pages, syncs, changed, touched, ctx>>

\* One byte of a file's content is changed, or one byte is appended to it.
Edits(data) ==
    {[data EXCEPT ![i] = IF @ = "x" THEN "y" ELSE "x"] : i \in 1..Len(data)}
    \cup (IF Len(data) < MaxLen THEN {Append(data, "y")} ELSE {})

\* Between two invocations the content of one file is modified.
ModifyFile(path, data) ==
    /\ pc = "done"
    /\ syncs < MaxSyncs
    /\ changed = {}
    /\ touched = {}
    /\ is_file(path)
    /\ fs[path].readable
    /\ data \in Edits(fs[path].data)
    /\ fs' = [fs EXCEPT ![path].data = data]
    /\ changed' = {path}
    /\ UNCHANGED <<store, manifest, listed, pc, err, cur, pages, stack, handed, uploaded,
                   call, syncs, touched, ctx>>

\* Between two invocations somebody else removes an object from a container.
ExternalDelete(bucket, key) ==
    /\ pc = "done"
    /\ syncs < MaxSyncs
    /\ changed = {}
    /\ touched = {}
    /\ store[bucket][key].present
    /\ store' = [store EXCEPT ![bucket][key] = NoObject]
    /\ touched' = {bucket}
    /\ UNCHANGED <<fs, manifest, listed, pc, err, cur, pages, stack, handed, uploaded,
                   call, syncs, changed, ctx>>

Next ==
    \/ \E bucket \in Containers : sync(bucket)
    \/ load_manifest
    \/ \E a_path \in AbsPaths : handle_directory(a_path)
    \/ \E path \in AbsPaths, data \in AllData : ModifyFile(path, data)
    \/ \E bucket \in Containers, key \in Keys : ExternalDelete(bucket, key)

(* --------------------------- initial states --------------------------- *)

\* Trees of every shape: each path absent, a special file, a directory that
\* can or cannot be listed, or a file that can or cannot be read.
ShapeNodes == {NoNode, Special, Dir(TRUE), Dir(FALSE), File(<<"x">>), UnreadableFile}
ShapeTrees == {f \in [AbsPaths -> ShapeNodes] : WellFormed(f)}

\* One file of every content up to MaxLen bytes.
ContentTrees ==
    {[p \in AbsPaths |-> IF p = Root \o <<"a">> THEN File(d) ELSE NoNode] : d \in AllData}

\* Two files, one in a subdirectory, of the sizes around the chunk size.
SizeSamples == {<<>>, <<"x">>, <<"x", "y">>, <<"x", "y", "x">>}
TwoFileTrees ==
    {[p \in AbsPaths |-> IF p = Root \o <<"a">> THEN File(d1)
                         ELSE IF p = Root \o <<"d">> THEN Dir(TRUE)
                         ELSE File(d2)] : d1 \in SizeSamples, d2 \in SizeSamples}

\* Objects found in a container before the first invocation: put there by an
\* earlier run of the tool, or by another client under a tag of its own.
EarlierObjects ==
    {Object(d, UploadedTag(d)) : d \in {<<>>, <<"x">>}}
    \cup {Object(<<"x">>, <<>>)}

Init ==
    /\ \/ /\ fs \in ShapeTrees \cup ContentTrees
          /\ store = [b \in Containers |-> EmptyContainer]
       \/ /\ fs \in TwoFileTrees
          /\ \E o \in {NoObject} \cup EarlierObjects :
              store = [b \in Containers |->
                          IF b = "A" THEN [EmptyContainer EXCEPT ![<<"a">>] = o]
                          ELSE EmptyContainer]
    /\ manifest = EmptyManifest
    /\ listed = EmptyManifest
    /\ pc = "idle"
    /\ err = "none"
    /\ cur = "A"
    /\ pages = <<>>
    /\ stack = <<>>
    /\ handed = <<>>
    /\ uploaded = {}
    /\ call = NoCall
    /\ syncs = 0
    /\ changed = {}
    /\ touched = {}
    /\ ctx = [prev |-> "none", changed |-> {}, touched |-> {}]

Spec == Init /\ [][Next]_vars

(* ------------------------------- claims ------------------------------- *)

KeyOf(p) == relative_to(p, Root)

HandedTimes(p) == Cardinality({i \in 1..Len(handed) : handed[i].path = p})

\* sync has returned without error and nothing has happened since.
Returned == pc = "done" /\ changed = {} /\ touched = {}

\* The invocation that just returned ran right after a completed invocation on
\* the same container, which nobody else changed in between.
Rerun == Returned /\ ctx.prev = cur /\ cur \notin ctx.touched

\* C1: a second sync of an unchanged tree into an unchanged container calls
\* bucket.upload_file for no file.
C1_SecondSyncUploadsNothing ==
    (Rerun /\ ctx.changed = {}) => uploaded = {}

\* C2: when hashing or uploading one file fails, sync still hands every other
\* regular file of the tree to upload_file.
C2_FileFailureDoesNotAbortWalk ==
    (pc = "failed" /\ err \in {"hash", "upload"})
        => \A p \in RegularFiles : HandedTimes(p) >= 1

\* C3: during the walk the manifest holds exactly the entries listed from the
\* invocation's own container, and every skip/upload decision is the one those
\* entries alone give.
C3_ManifestIsThisInvocationsListing ==
    /\ pc \in {"walking", "done"} => manifest = listed
    /\ call.made => (call.skipped <=> skips(listed, call.key, call.etag))

\* C4: when sync returns without error, every regular file under the root has
\* an object under its relative key in the container with the file's content.
C4_MirrorAfterSync ==
    Returned =>
        \A p \in RegularFiles :
            /\ store[cur][KeyOf(p)].present
            /\ store[cur][KeyOf(p)].data = fs[p].data

\* C5: a listing failure ends sync with that error and without any upload_file
\* call, and no file is handed to upload_file while a listing page is still to
\* be fetched.
C5_ListingPrecedesUploads ==
    /\ (pc = "failed" /\ err = "list") => (Len(handed) = 0 /\ uploaded = {})
    /\ (Len(handed) > 0 \/ uploaded # {} \/ call.made) => Len(pages) = 0
    /\ (pc = "walking" \/ pc = "done") => Len(pages) = 0

\* C5 witness: a page after the first could not be fetched, in a tree that holds
\* regular files.
C5_Witness ==
    /\ pc = "failed" /\ err = "list"
    /\ RegularFiles # {}
    /\ Len(pages) >= 1
    /\ Len(pages) < Len(Paginate(Listing(cur)))

\* C6: an uploaded file of n > 0 bytes goes multipart exactly when
\* n > CHUNK_SIZE, and the tag the store records equals gen_etag's value.
C6_StrategyAgreesWithChunking ==
    (call.made /\ call.strategy # "none" /\ Len(call.data) > 0) =>
        /\ call.strategy = "multipart" <=> Len(call.data) > CHUNK_SIZE
        /\ call.stored = call.etag

\* C7: upload_file skips the transfer exactly when the fingerprint is present
\* and equal to the manifest's entry for the key; otherwise it calls
\* bucket.upload_file for the key.
C7_SkipIffFingerprintMatches ==
    call.made =>
        /\ call.skipped <=> (call.etag # None /\ call.had /\ call.tag = call.etag)
        /\ call.skipped <=> call.key \notin uploaded

\* C7 witness: upload_file has skipped a file whose fingerprint is in the manifest.
C7_Witness ==
    call.made /\ call.skipped /\ call.had /\ call.etag # None

\* C8: after a completed sync and the modification of exactly one file, the
\* next sync uploads that file's key and no other.
C8_OnlyModifiedFileUploaded ==
    (Rerun /\ Cardinality(ctx.changed) = 1)
        => uploaded = {KeyOf(p) : p \in ctx.changed}

\* The digests of chunks i..k of data, chunk i being bytes (i-1)c+1 .. min(ic, n).
RECURSIVE ChunkDigests(_, _, _)
ChunkDigests(data, i, k) ==
    IF i > k THEN <<>>
    ELSE <<"md5(">>
         \o SubSeq(data, (i - 1) * CHUNK_SIZE + 1, Min(i * CHUNK_SIZE, Len(data)))
         \o <<")">> \o ChunkDigests(data, i + 1, k)

\* C9: gen_etag gives None for n = 0, "<hex>" of the whole content for
\* 0 < n <= c, and "<hex>-<k>" with k = ceil(n / c) for n > c, the digest being
\* taken over the chunks' digests in read order.
C9_FingerprintFormBySize ==
    call.made =>
        LET n == Len(call.data)
            k == (n + CHUNK_SIZE - 1) \div CHUNK_SIZE
            md5hex(d) == <<"hex[", "md5(">> \o d \o <<")", "]">>
        IN  /\ n = 0 => call.etag = None
            /\ (0 < n /\ n <= CHUNK_SIZE)
                   => call.etag = <<"\"">> \o md5hex(call.data) \o <<"\"">>
            /\ n > CHUNK_SIZE
                   => call.etag = <<"\"">> \o md5hex(ChunkDigests(call.data, 1, k))
                                  \o <<"-", ToString(k), "\"">>

\* C9 witness: gen_etag has run on a file of three chunks, the last one short.
C9_Witness ==
    /\ call.made
    /\ Len(call.data) = 2 * CHUNK_SIZE + 1
    /\ call.etag[Len(call.etag) - 1] = "3"

\* C10: the walk hands every regular file to upload_file exactly once, under
\* its path relative to the root, never hands over a directory, and is not
\* ended by a directory entry that cannot be read.
C10_WalkHandsEveryFileOnce ==
    /\ pc = "done" => \A p \in RegularFiles : HandedTimes(p) = 1
    /\ \A i \in 1..Len(handed) :
        /\ is_file(handed[i].path)
        /\ Root \o handed[i].key = handed[i].path
    /\ err # "walk"

====
